---- MODULE Spec2Model ----
(***************************************************************************)
(* Retrieval-and-citation pipeline of the GMAO backend                     *)
(* (backend/rag/hybrid_search.py, reranker.py, citation_tracker.py,        *)
(* chunking.py).                                                           *)
(*                                                                         *)
(* Scores are rationals.  A fused RRF score s is stored as the integer     *)
(* s * AlphaDen * Scale, where alpha = alpha / AlphaDen and Scale is a     *)
(* common multiple of every denominator K + rank + 1 that can occur.       *)
(***************************************************************************)
EXTENDS Integers, Sequences, FiniteSets, TLC

(* ---------------------------- bounds ----------------------------------- *)
NumDocs == 3        \* chunks stored in the vector store
MaxVec == 2         \* candidates returned by one vector query
MaxTopK == 2        \* largest top_k passed to hybrid_search
AlphaDen == 2       \* alpha ranges over 0/AlphaDen .. AlphaDen/AlphaDen
MaxBm25 == 2        \* BM25 scores range over 0..MaxBm25
MaxCand == 2        \* candidates handed to the reranker
MaxScore == 1       \* cross-encoder scores range over -1..MaxScore
MaxMarker == 3      \* markers [0] .. [MaxMarker] occur in generated answers
MaxTokens == 3      \* words and markers in a generated answer
MaxCit == 3         \* citations handed to merge_overlapping_citations
MaxText == 5        \* characters of a text handed to chunk_text
MaxPages == 2       \* pages handed to chunk_by_pages
MaxPageLen == 1     \* characters of one page handed to chunk_by_pages
MaxChunkSize == 3   \* chunk_size ranges over 1..MaxChunkSize
MaxParseLen == 5    \* characters of a text handed to parse_citations
MaxValidate == 2    \* citations handed to validate_citations

(* ------------------------ program constants ---------------------------- *)
K == 60             \* RRF parameter
Tolerance == 50     \* adjacency tolerance of merge_overlapping_citations

\* bm25_index before index_documents has run
None == [built |-> FALSE]

\* a BM25Okapi object over a tokenized corpus (an object is truthy)
BM25Okapi(tokenized_docs) == [built |-> TRUE, corpus |-> tokenized_docs]

(* ------------------------------ state ---------------------------------- *)
VARIABLES
    alpha,          \* HybridSearcher.alpha (numerator over AlphaDen)
    bm25_index,     \* HybridSearcher.bm25_index: None or the tokenized corpus
    documents,      \* HybridSearcher.documents
    metadatas,      \* HybridSearcher.metadatas
    ids,            \* HybridSearcher.ids
    search,         \* the last hybrid_search call: its arguments and what it returned
    rr,             \* a rerank / rerank_with_threshold call: arguments, outcome
    cite,           \* a create_citation_objects call: arguments, context, outcome
    mg,             \* a merge_overlapping_citations call: argument, outcome
    ck              \* a chunk_text / chunk_by_pages call: chunker, arguments, position

vars == <<alpha, bm25_index, documents, metadatas, ids, search, rr, cite, mg, ck>>

(* ------------------------- generic helpers ----------------------------- *)
Min(a, b) == IF a <= b THEN a ELSE b

Max(a, b) == IF a >= b THEN a ELSE b

Range(s) == {s[i] : i \in 1..Len(s)}

\* s[:n] of Python, n >= 0
Take(s, n) == SubSeq(s, 1, Min(n, Len(s)))

\* sequences over S without repeats, of length at most n
DistinctSeqs(S, n) ==
    UNION {{s \in [1..m -> S] : \A i, j \in 1..m : i # j => s[i] # s[j]} : m \in 0..n}

RECURSIVE Prod(_, _)
Prod(lo, hi) == IF lo > hi THEN 1 ELSE lo * Prod(lo + 1, hi)

\* common multiple of K+1 .. K+MaxVec (ranks are 0 .. MaxVec-1 in both lists)
Scale == Prod(K + 1, K + MaxVec)

(* --------------------------- the vector store -------------------------- *)
DocIds == 1..NumDocs

\* chunk texts, already split on whitespace (str.split)
DocText(id) ==
    CASE id % 3 = 1 -> <<"Pompe", "hydraulique">>
      [] id % 3 = 2 -> <<"vanne", "hydraulique">>
      [] OTHER      -> <<"moteur">>

\* keywords values.  A str is ", ".join(items).  A list holds the strings of
\* items and every character of the strings named in chars_of; ordered is FALSE
\* when the order of the list is that of a set's iteration.
KwStr(items) == [kind |-> "str", items |-> items, chars_of |-> <<>>, ordered |-> TRUE]

KwList(items) == [kind |-> "list", items |-> items, chars_of |-> <<>>, ordered |-> TRUE]

\* the metadata SmartChunker.chunk_text writes for a chunk
DocMeta(id) ==
    [document_name |-> "manuel.pdf", page_number |-> 1 + (id % 2), chunk_index |-> id - 1,
     char_start |-> 100 * (id - 1), char_end |-> 100 * (id - 1) + 80, chunk_length |-> 80,
     keywords |-> KwStr(Tail(DocText(id)))]

Queries == {<<"pompe">>, <<"Hydraulique", "vanne">>, <<"roulement">>}

\* what ChromaManager.query hands to hybrid_search: lists wrapped in one outer list,
\* best first (distances ascending)
VectorResults(vids) ==
    [documents |-> <<[i \in 1..Len(vids) |-> DocText(vids[i])]>>,
     metadatas |-> <<[i \in 1..Len(vids) |-> DocMeta(vids[i])]>>,
     distances |-> <<[i \in 1..Len(vids) |-> i - 1]>>,
     ids       |-> <<vids>>]

(* ------------------------------ BM25 ----------------------------------- *)
\* str.lower on one word
Lower(w) ==
    CASE w = "Pompe" -> "pompe"
      [] w = "Hydraulique" -> "hydraulique"
      [] OTHER -> w

\* doc.lower().split()
Tokenize(text) == [i \in 1..Len(text) |-> Lower(text[i])]

\* BM25Okapi.get_scores: a document sharing no token with the query scores 0;
\* the other scores depend on corpus statistics and are left open (0 stands for
\* every score <= 0, which search_bm25 filters the same way)
GetScores(corpus, tokenized_query) ==
    {s \in [1..Len(corpus) -> 0..MaxBm25] :
        \A i \in 1..Len(corpus) :
            (Range(corpus[i]) \cap Range(tokenized_query) = {}) => s[i] = 0}

\* np.argsort(scores)[::-1]: indices by descending score, ties in any order
ArgsortDesc(scores) ==
    LET n == Len(scores)
    IN {p \in [1..n -> 1..n] :
            /\ \A i, j \in 1..n : i # j => p[i] # p[j]
            /\ \A i \in 1..n - 1 : scores[p[i]] >= scores[p[i + 1]]}

RECURSIVE KeepPositive(_, _, _, _, _)
KeepPositive(top_indices, scores, docs, metas, idl) ==
    IF top_indices = <<>> THEN <<>>
    ELSE LET idx == Head(top_indices)
             rest == KeepPositive(Tail(top_indices), scores, docs, metas, idl)
         IN IF scores[idx] > 0
            THEN <<[document |-> docs[idx], score |-> scores[idx],
                    metadata |-> metas[idx], id |-> idl[idx]]>> \o rest
            ELSE rest

\* HybridSearcher.search_bm25: every list it can return
SearchBm25(index, docs, metas, idl, query, top_k) ==
    IF index = None THEN {<<>>}
    ELSE UNION {{KeepPositive(Take(p, top_k), s, docs, metas, idl) : p \in ArgsortDesc(s)} :
                    s \in GetScores(index.corpus, Tokenize(query))}

(* -------------------------- rank fusion -------------------------------- *)
\* an id is never found among the keys
KeyPosAbsent(d, doc_id) == 0

\* position of the entry keyed by doc_id in the insertion-ordered dict, 0 if absent
RECURSIVE KeyPos(_, _)
KeyPos(d, doc_id) ==
    IF d = <<>> THEN 0
    ELSE IF d[Len(d)].id = doc_id THEN Len(d)
    ELSE KeyPos(SubSeq(d, 1, Len(d) - 1), doc_id)

\* the contribution with the weight forgotten
RrfScoreUnweighted(weight, rank) == Scale \div (K + rank + 1)

\* weight * (1 / (k + rank + 1)), rank 0-based, weight a numerator over AlphaDen
RrfScore(weight, rank) == weight * (Scale \div (K + rank + 1))

\* the vector loop of hybrid_search, entries rank+1 .. Len
RECURSIVE AddVector(_, _, _, _, _, _, _)
AddVector(rrf, a, docs, metas, dists, idl, i) ==
    IF i > Min(Min(Len(docs), Len(metas)), Min(Len(dists), Len(idl))) THEN rrf
    ELSE LET pos == KeyPos(rrf, idl[i])
             d1 == IF pos = 0
                   THEN Append(rrf, [document |-> docs[i], metadata |-> metas[i],
                                     score |-> 0,
                                     semantic_score |-> <<1, 1 + dists[i]>>,
                                     keyword_score |-> 0, id |-> idl[i]])
                   ELSE rrf
             p1 == IF pos = 0 THEN Len(d1) ELSE pos
             d2 == [d1 EXCEPT ![p1].score = @ + RrfScore(a, i - 1)]
         IN AddVector(d2, a, docs, metas, dists, idl, i + 1)

\* bm25_id_to_rank: a later occurrence of an id overwrites an earlier one
Bm25IdToRank(bm25_results, doc_id) ==
    (CHOOSE i \in 1..Len(bm25_results) :
        /\ bm25_results[i].id = doc_id
        /\ \A j \in i + 1..Len(bm25_results) : bm25_results[j].id # doc_id) - 1

\* the BM25 loop of hybrid_search
RECURSIVE AddBm25(_, _, _, _)
AddBm25(rrf, a, bm25_results, i) ==
    IF i > Len(bm25_results) THEN rrf
    ELSE LET r == bm25_results[i]
             rank == Bm25IdToRank(bm25_results, r.id)
             pos == KeyPos(rrf, r.id)
             d1 == IF pos = 0
                   THEN Append(rrf, [document |-> r.document, metadata |-> r.metadata,
                                     score |-> 0, semantic_score |-> <<0, 1>>,
                                     keyword_score |-> r.score, id |-> r.id])
                   ELSE [rrf EXCEPT ![pos].keyword_score = r.score]
             p1 == IF pos = 0 THEN Len(d1) ELSE pos
             d2 == [d1 EXCEPT ![p1].score = @ + RrfScore(AlphaDen - a, rank)]
         IN AddBm25(d2, a, bm25_results, i + 1)

\* the values left in insertion order
SortByScoreMissing(s) == s

\* an insertion that puts x before the entries of equal score
RECURSIVE InsertByScoreBeforeEqual(_, _)
InsertByScoreBeforeEqual(sorted, x) ==
    IF sorted = <<>> THEN <<x>>
    ELSE IF Head(sorted).score > x.score
         THEN <<Head(sorted)>> \o InsertByScoreBeforeEqual(Tail(sorted), x)
         ELSE <<x>> \o sorted

\* sorted(values, key=score, reverse=True): stable, equal scores keep their order
RECURSIVE InsertByScore(_, _)
InsertByScore(sorted, x) ==
    IF sorted = <<>> THEN <<x>>
    ELSE IF Head(sorted).score >= x.score
         THEN <<Head(sorted)>> \o InsertByScore(Tail(sorted), x)
         ELSE <<x>> \o sorted

RECURSIVE SortByScoreDesc(_)
SortByScoreDesc(s) ==
    IF s = <<>> THEN <<>>
    ELSE InsertByScore(SortByScoreDesc(SubSeq(s, 1, Len(s) - 1)), s[Len(s)])

\* `x[0] if x else []`
FirstOrEmpty(x) == IF x # <<>> THEN x[1] ELSE <<>>

\* the guard of hybrid_search's index construction
MustIndex(index, vector_docs) == index = None /\ vector_docs # <<>>

(* ---------------------------- operations ------------------------------- *)
\* HybridSearcher.hybrid_search(query, vector_results, top_k)
HybridSearch ==
    /\ ~search.called
    /\ \E query \in Queries, vids \in DistinctSeqs(DocIds, MaxVec), top_k \in 0..MaxTopK :
        LET vector_results == VectorResults(vids)
            vector_docs == FirstOrEmpty(vector_results.documents)
            vector_metas == FirstOrEmpty(vector_results.metadatas)
            vector_distances == FirstOrEmpty(vector_results.distances)
            vector_ids == FirstOrEmpty(vector_results.ids)
            build == MustIndex(bm25_index, vector_docs)
            index1 == IF build THEN BM25Okapi([i \in 1..Len(vector_docs) |-> Tokenize(vector_docs[i])])
                      ELSE bm25_index
            docs1 == IF build THEN vector_docs ELSE documents
            metas1 == IF build THEN vector_metas ELSE metadatas
            ids1 == IF build THEN vector_ids ELSE ids
        IN \E bm25_results \in SearchBm25(index1, docs1, metas1, ids1, query, top_k * 2) :
            LET rrf1 == AddVector(<<>>, alpha, vector_docs, vector_metas,
                                  vector_distances, vector_ids, 1)
                rrf2 == AddBm25(rrf1, alpha, bm25_results, 1)
                ranked_results == Take(SortByScoreDesc(rrf2), top_k)
            IN /\ bm25_index' = index1
               /\ documents' = docs1
               /\ metadatas' = metas1
               /\ ids' = ids1
               /\ search' = [called |-> TRUE, query |-> query,
                             vector_ids |-> vector_ids, top_k |-> top_k,
                             bm25_results |-> bm25_results,
                             rrf_scores |-> rrf2,
                             ranked_results |-> ranked_results]
               /\ UNCHANGED <<alpha, rr, cite, mg, ck>>

\* rag_query_with_generation hands the result on and the request ends; the
\* process-wide searcher stays
Respond ==
    /\ search.called
    /\ search' = [called |-> FALSE]
    /\ UNCHANGED <<alpha, bm25_index, documents, metadatas, ids, rr, cite, mg, ck>>

(* ----------------------------- reranker -------------------------------- *)
\* an optional int argument: <<>> is None, <<k>> is k
NoneArg == <<>>

\* `if top_k:` is false for None and for 0
Truthy(top_k) == top_k # NoneArg /\ top_k[1] # 0

Return(value) == [outcome |-> "return", result |-> value]

Raise(exception) == [outcome |-> exception, result |-> <<>>]

\* dict.get(key, default)
Get(d, key, default) == IF key \in DOMAIN d THEN d[key] ELSE default

\* the copy with original_score read after score was replaced
RescoredInPlace(candidate, score) ==
    [f \in DOMAIN candidate \cup {"original_score", "rerank_score", "score"} |->
        CASE f = "original_score" -> score
          [] f = "rerank_score" -> score
          [] f = "score" -> score
          [] OTHER -> candidate[f]]

\* candidate.copy() with original_score, rerank_score and score set
Rescored(candidate, score) ==
    [f \in DOMAIN candidate \cup {"original_score", "rerank_score", "score"} |->
        CASE f = "original_score" -> Get(candidate, "score", 0)
          [] f = "rerank_score" -> score
          [] f = "score" -> score
          [] OTHER -> candidate[f]]

\* an insertion that puts x before the entries of equal rerank_score
RECURSIVE InsertBeforeEqual(_, _)
InsertBeforeEqual(sorted, x) ==
    IF sorted = <<>> THEN <<x>>
    ELSE IF Head(sorted).rerank_score > x.rerank_score
         THEN <<Head(sorted)>> \o InsertBeforeEqual(Tail(sorted), x)
         ELSE <<x>> \o sorted

\* reranked.sort(key=rerank_score, reverse=True): stable
RECURSIVE InsertByRerankScore(_, _)
InsertByRerankScore(sorted, x) ==
    IF sorted = <<>> THEN <<x>>
    ELSE IF Head(sorted).rerank_score >= x.rerank_score
         THEN <<Head(sorted)>> \o InsertByRerankScore(Tail(sorted), x)
         ELSE <<x>> \o sorted

RECURSIVE SortByRerankScoreDesc(_)
SortByRerankScoreDesc(s) ==
    IF s = <<>> THEN <<>>
    ELSE InsertByRerankScore(SortByRerankScoreDesc(SubSeq(s, 1, Len(s) - 1)), s[Len(s)])

\* a fallback that applies the limit all the same
RerankFallbackLimited(candidates, top_k) ==
    IF Truthy(top_k) THEN Take(candidates, top_k[1]) ELSE candidates

\* the except branch of rerank: the list it was given
RerankFallback(candidates, top_k) == candidates

\* CrossEncoder.predict(pairs): it raises, or gives one score per pair
Predictions(n) ==
    {[ok |-> FALSE]} \cup {[ok |-> TRUE, scores |-> sc] : sc \in [1..n -> -1..MaxScore]}

\* CrossEncoderReranker.rerank(query, candidates, top_k) under one behaviour of the model
Rerank(candidates, top_k, predict) ==
    IF candidates = <<>> THEN Return(<<>>)
    ELSE IF ~predict.ok THEN Return(RerankFallback(candidates, top_k))
    ELSE LET reranked == SortByRerankScoreDesc(
                 [i \in 1..Len(candidates) |-> Rescored(candidates[i], predict.scores[i])])
         IN Return(IF Truthy(top_k) THEN Take(reranked, top_k[1]) ELSE reranked)

\* the comprehension [c for c in reranked if c["rerank_score"] >= threshold]
RECURSIVE FilterByThreshold(_, _)
FilterByThreshold(reranked, threshold) ==
    IF reranked = <<>> THEN <<>>
    ELSE IF Head(reranked).rerank_score >= threshold
         THEN <<Head(reranked)>> \o FilterByThreshold(Tail(reranked), threshold)
         ELSE FilterByThreshold(Tail(reranked), threshold)

\* CrossEncoderReranker.rerank_with_threshold(query, candidates, threshold, top_k)
RerankWithThreshold(candidates, threshold, top_k, predict) ==
    LET reranked == Rerank(candidates, NoneArg, predict).result
    IN IF \E i \in 1..Len(reranked) : "rerank_score" \notin DOMAIN reranked[i]
       THEN Raise("KeyError")
       ELSE LET filtered == FilterByThreshold(reranked, threshold)
            IN Return(IF Truthy(top_k) THEN Take(filtered, top_k[1]) ELSE filtered)

\* the candidate lists the reranker is given: hybrid_search results ("fused"),
\* dicts without a score ("bare"), results of an earlier rerank ("reranked")
Candidate(kind, id, pos) ==
    LET bare == [document |-> DocText(id), metadata |-> DocMeta(id), id |-> id]
        fused == [document |-> DocText(id), metadata |-> DocMeta(id), id |-> id,
                  score |-> 10 * (MaxCand + 1 - pos),
                  semantic_score |-> <<1, pos>>, keyword_score |-> 0]
    IN CASE kind = "bare" -> bare
         [] kind = "fused" -> fused
         [] OTHER -> Rescored(fused, MaxScore - pos)

CandidateLists ==
    {[i \in 1..Len(cids) |-> Candidate(kind, cids[i], i)] :
        kind \in {"bare", "fused", "reranked"}, cids \in DistinctSeqs(DocIds, MaxCand)}

TopKs == {NoneArg} \cup {<<k>> : k \in 0..MaxTopK}

RerankAction ==
    /\ rr.op = "rerank" /\ rr.outcome = "pending"
    /\ \E predict \in Predictions(Len(rr.candidates)) :
        LET out == Rerank(rr.candidates, rr.top_k, predict)
        IN rr' = [rr EXCEPT !.predict_ok = predict.ok,
                            !.scores = IF predict.ok THEN predict.scores ELSE <<>>,
                            !.outcome = out.outcome, !.result = out.result]
    /\ UNCHANGED <<alpha, bm25_index, documents, metadatas, ids, search, cite, mg, ck>>

RerankWithThresholdAction ==
    /\ rr.op = "rerank_with_threshold" /\ rr.outcome = "pending"
    /\ \E predict \in Predictions(Len(rr.candidates)) :
        LET out == RerankWithThreshold(rr.candidates, rr.threshold, rr.top_k, predict)
        IN rr' = [rr EXCEPT !.predict_ok = predict.ok,
                            !.scores = IF predict.ok THEN predict.scores ELSE <<>>,
                            !.outcome = out.outcome, !.result = out.result]
    /\ UNCHANGED <<alpha, bm25_index, documents, metadatas, ids, search, cite, mg, ck>>

\* the scorer is deterministic: what it gave for the document of candidate doc_id
ScoreFor(candidates, scores, doc_id) ==
    scores[CHOOSE i \in 1..Len(candidates) : candidates[i].id = doc_id]

\* rerank(query, rerank(query, candidates, top_k), top_k): the result of a
\* successful call is reranked again with the same query and scorer
RerankAgainAction ==
    /\ rr.op = "rerank" /\ rr.outcome = "return" /\ rr.predict_ok
    /\ rr.again = "pending"
    /\ LET predict == [ok |-> TRUE,
                       scores |-> [i \in 1..Len(rr.result) |->
                                    ScoreFor(rr.candidates, rr.scores, rr.result[i].id)]]
           out == Rerank(rr.result, rr.top_k, predict)
       IN rr' = [rr EXCEPT !.again = out.outcome, !.second = out.result]
    /\ UNCHANGED <<alpha, bm25_index, documents, metadatas, ids, search, cite, mg, ck>>

(* ------------------------- citation tracker ---------------------------- *)
\* a text is a sequence of characters
Digits == <<"0", "1", "2", "3", "4", "5", "6", "7", "8", "9">>

IsDigit(c) == \E d \in 1..10 : Digits[d] = c

DigitVal(c) == (CHOOSE d \in 1..10 : Digits[d] = c) - 1

\* int(m) for a string of decimal digits
RECURSIVE ToInt(_)
ToInt(m) == IF m = <<>> THEN 0 ELSE 10 * ToInt(SubSeq(m, 1, Len(m) - 1)) + DigitVal(m[Len(m)])

\* last index of the run of digits that starts at j (j - 1 if text[j] is no digit)
RECURSIVE DigitRunEnd(_, _)
DigitRunEnd(text, j) ==
    IF j <= Len(text) /\ IsDigit(text[j]) THEN DigitRunEnd(text, j + 1) ELSE j - 1

\* re.compile(r'\[(\d+)\]').findall(text), scanning from index i
RECURSIVE FindAll(_, _)
FindAll(text, i) ==
    IF i > Len(text) THEN <<>>
    ELSE IF text[i] = "["
         THEN LET e == DigitRunEnd(text, i + 1)
              IN IF e >= i + 1 /\ e + 1 <= Len(text) /\ text[e + 1] = "]"
                 THEN <<SubSeq(text, i + 1, e)>> \o FindAll(text, e + 2)
                 ELSE FindAll(text, i + 1)
         ELSE FindAll(text, i + 1)

\* the integers of S from the largest down
RECURSIVE SortedDescending(_)
SortedDescending(S) ==
    IF S = {} THEN <<>>
    ELSE LET m == CHOOSE x \in S : \A y \in S : x >= y
         IN <<m>> \o SortedDescending(S \ {m})

\* sorted(set(...)) of integers
RECURSIVE Sorted(_)
Sorted(S) ==
    IF S = {} THEN <<>>
    ELSE LET m == CHOOSE x \in S : \A y \in S : x <= y
         IN <<m>> \o Sorted(S \ {m})

\* CitationTracker.parse_citations
ParseCitations(response_text) ==
    LET matches == FindAll(response_text, 1)
    IN Sorted({ToInt(matches[i]) : i \in 1..Len(matches)})

\* `if chunk_idx < len(cited_chunks)`
InRange(chunk_idx, n) == chunk_idx < n

\* the citation built from cited_chunks[chunk_idx] for marker idx
CitationOf(chunk, idx) ==
    LET metadata == Get(chunk, "metadata", <<>>)
    IN [citation_number |-> idx,
        document_name |-> Get(metadata, "document_name", "Unknown"),
        page_number |-> Get(metadata, "page_number", 0),
        chunk_index |-> Get(metadata, "chunk_index", 0),
        char_start |-> Get(metadata, "char_start", 0),
        char_end |-> Get(metadata, "char_end", 0),
        text |-> Get(chunk, "document", <<>>),
        keywords |-> Get(metadata, "keywords", KwList(<<>>)),
        score |-> Get(chunk, "score", 0),
        rerank_score |-> Get(chunk, "rerank_score", 0)]

\* the loop of create_citation_objects from the i-th parsed index on;
\* list[-1] is the last element, and an IndexError on an empty list
RECURSIVE CreateLoop(_, _, _, _)
CreateLoop(cited_chunks, citation_indices, i, citations) ==
    IF i > Len(citation_indices) THEN Return(citations)
    ELSE LET idx == citation_indices[i]
             chunk_idx == idx - 1
             n == Len(cited_chunks)
         IN IF InRange(chunk_idx, n)
            THEN IF chunk_idx < 0 /\ -chunk_idx > n THEN Raise("IndexError")
                 ELSE LET chunk == IF chunk_idx >= 0 THEN cited_chunks[chunk_idx + 1]
                                   ELSE cited_chunks[n + chunk_idx + 1]
                      IN CreateLoop(cited_chunks, citation_indices, i + 1,
                                    Append(citations, CitationOf(chunk, idx)))
            ELSE CreateLoop(cited_chunks, citation_indices, i + 1, citations)

\* CitationTracker.create_citation_objects
CreateCitationObjects(cited_chunks, response_text) ==
    CreateLoop(cited_chunks, ParseCitations(response_text), 1, <<>>)

\* the chunks handed over by the reranker; every third one was stored with
\* partial metadata and carries no scores
CitedChunk(id, pos) ==
    IF id % 3 = 0
    THEN [document |-> DocText(id), id |-> id,
          metadata |-> [document_name |-> "notice.pdf", page_number |-> 2]]
    ELSE Rescored(Candidate("fused", id, pos), MaxScore - pos)

ChunkLists ==
    {[i \in 1..Len(cids) |-> CitedChunk(cids[i], i)] : cids \in DistinctSeqs(DocIds, MaxCand)}

\* generated answers: words and markers [n]
MarkerText(n) == <<"[", Digits[n + 1], "]">>

AnswerTokens == {<<"v", "u", " ">>} \cup {MarkerText(n) : n \in 0..MaxMarker}

RECURSIVE Flatten(_)
Flatten(tokens) == IF tokens = <<>> THEN <<>> ELSE Head(tokens) \o Flatten(Tail(tokens))

Answers == {Flatten(t) : t \in UNION {[1..m -> AnswerTokens] : m \in 0..MaxTokens}}

\* rag_query_with_generation, step 4: block i of the context is labelled [i]
\* and holds reranked_results[i - 1]
AssembleContext ==
    /\ cite.phase = "reranked"
    /\ cite' = [cite EXCEPT !.phase = "context",
                    !.context = [i \in 1..Len(cite.cited_chunks) |->
                        [label |-> i,
                         doc_name |-> Get(cite.cited_chunks[i].metadata, "document_name", "Unknown"),
                         page_num |-> Get(cite.cited_chunks[i].metadata, "page_number", 0),
                         content |-> cite.cited_chunks[i].document]]]
    /\ UNCHANGED <<alpha, bm25_index, documents, metadatas, ids, search, rr, mg, ck>>

\* rag_query_with_generation, step 6, on the answer the generation service gave
CreateCitationObjectsAction ==
    /\ cite.phase = "context"
    /\ LET out == CreateCitationObjects(cite.cited_chunks, cite.response_text)
       IN cite' = [cite EXCEPT !.phase = "done", !.outcome = out.outcome,
                               !.result = out.result]
    /\ UNCHANGED <<alpha, bm25_index, documents, metadatas, ids, search, rr, mg, ck>>

\* characters of the texts handed to parse_citations
ParseAlphabet == {"[", "]", "0", "1", "2", "a"}

\* a text whose markers come out of order and repeat
ExampleText ==
    <<"T", "e", "x", "t", " ", "[", "2", "]", " ", "a", "n", "d", " ",
      "[", "1", "]", " ", "a", "n", "d", " ", "[", "2", "]", ".">>

ParseTexts == UNION {[1..m -> ParseAlphabet] : m \in 0..MaxParseLen} \cup {ExampleText}

\* CitationTracker.parse_citations(response_text)
ParseCitationsAction ==
    /\ cite.phase = "parse"
    /\ cite' = [cite EXCEPT !.phase = "parsed", !.outcome = "return",
                            !.result = ParseCitations(cite.response_text)]
    /\ UNCHANGED <<alpha, bm25_index, documents, metadatas, ids, search, rr, mg, ck>>

(* ---------------------- merge_overlapping_citations -------------------- *)
KeyOf(citation) == <<citation.document_name, citation.page_number>>

\* the keys in the order of their last appearance in the input
RECURSIVE GroupKeysByLast(_)
GroupKeysByLast(citations) ==
    IF citations = <<>> THEN <<>>
    ELSE LET rest == GroupKeysByLast(Tail(citations))
             key == <<Head(citations).document_name, Head(citations).page_number>>
         IN IF key \in Range(rest) THEN rest ELSE <<key>> \o rest

\* the keys of `grouped` in insertion order: first appearance in the input
RECURSIVE GroupKeys(_)
GroupKeys(citations) ==
    IF citations = <<>> THEN <<>>
    ELSE LET front == GroupKeys(SubSeq(citations, 1, Len(citations) - 1))
             key == KeyOf(citations[Len(citations)])
         IN IF key \in Range(front) THEN front ELSE Append(front, key)

\* grouped[key]
RECURSIVE GroupOf(_, _)
GroupOf(citations, key) ==
    IF citations = <<>> THEN <<>>
    ELSE IF KeyOf(Head(citations)) = key
         THEN <<Head(citations)>> \o GroupOf(Tail(citations), key)
         ELSE GroupOf(Tail(citations), key)

RECURSIVE InsertByCharStart(_, _)
InsertByCharStart(sorted, x) ==
    IF sorted = <<>> THEN <<x>>
    ELSE IF Head(sorted).char_start <= x.char_start
         THEN <<Head(sorted)>> \o InsertByCharStart(Tail(sorted), x)
         ELSE <<x>> \o sorted

\* group.sort(key=char_start): stable, ascending
RECURSIVE SortByCharStart(_)
SortByCharStart(group) ==
    IF group = <<>> THEN <<>>
    ELSE InsertByCharStart(SortByCharStart(SubSeq(group, 1, Len(group) - 1)),
                           group[Len(group)])

\* the test without the tolerance
MergeableOverlapOnly(current, next_citation) ==
    next_citation.char_start <= current.char_end

\* the test with < for <=
MergeableStrict(current, next_citation) ==
    next_citation.char_start < current.char_end + Tolerance

\* `next_citation["char_start"] <= current["char_end"] + 50`
Mergeable(current, next_citation) ==
    next_citation.char_start <= current.char_end + Tolerance

KwOrder == <<"hydraulique", "moteur", "pompe", "vanne">>

\* the distinct strings of S, in one fixed order
Distinct(S) == LET In(w) == w \in S IN SelectSeq(KwOrder, In)

\* list(set(a + b)): str + str is a str, whose set is its characters; list + list
\* is a list; a list and a str cannot be added
UnionKeywords(a, b) ==
    IF a.kind # b.kind THEN [kind |-> "TypeError"]
    ELSE IF a.kind = "str"
         THEN [kind |-> "list", items |-> <<>>, chars_of |-> <<a.items \o b.items>>,
               ordered |-> FALSE]
         ELSE [kind |-> "list",
               items |-> Distinct(Range(a.items) \cup Range(b.items)),
               chars_of |-> a.chars_of \o b.chars_of, ordered |-> FALSE]

\* the scan of one sorted group.  `current` is one of the caller's dicts and
\* is updated in place: when the keywords cannot be added, char_end and text
\* have been written already, and `partial` lists the dicts written so far
RECURSIVE MergeScan(_, _, _)
MergeScan(current, rest, merged) ==
    IF rest = <<>> THEN Return(Append(merged, current))
    ELSE LET next_citation == Head(rest)
         IN IF Mergeable(current, next_citation)
            THEN LET kw == UnionKeywords(current.keywords, next_citation.keywords)
                 IN IF kw.kind = "TypeError"
                    THEN [outcome |-> "TypeError", result |-> <<>>,
                          partial |-> Append(merged,
                              [current EXCEPT
                                 !.char_end = Max(current.char_end, next_citation.char_end),
                                 !.text = current.text \o next_citation.text])]
                    ELSE MergeScan([current EXCEPT
                                       !.char_end = Max(current.char_end, next_citation.char_end),
                                       !.text = current.text \o next_citation.text,
                                       !.keywords = kw],
                                   Tail(rest), merged)
            ELSE MergeScan(next_citation, Tail(rest), Append(merged, current))

\* the loop over grouped.items() from the i-th key on
RECURSIVE MergeGroups(_, _, _, _)
MergeGroups(citations, keys, i, merged) ==
    IF i > Len(keys) THEN Return(merged)
    ELSE LET group == SortByCharStart(GroupOf(citations, keys[i]))
             out == MergeScan(Head(group), Tail(group), merged)
         IN IF out.outcome # "return" THEN out
            ELSE MergeGroups(citations, keys, i + 1, out.result)

\* the merged citations with the numbers they came with
RenumberKept(merged) == merged

\* `for idx, citation in enumerate(merged, 1): citation["citation_number"] = idx`
Renumber(merged) ==
    [idx \in 1..Len(merged) |-> [merged[idx] EXCEPT !.citation_number = idx]]

\* CitationTracker.merge_overlapping_citations
MergeOverlappingCitations(citations) ==
    IF citations = <<>> THEN Return(<<>>)
    ELSE LET out == MergeGroups(citations, GroupKeys(citations), 1, <<>>)
         IN IF out.outcome # "return" THEN out
            ELSE Return(Renumber(out.result))

\* citations to merge: character spans on pages of two documents
Spans == {<<100, 150>>, <<160, 200>>, <<200, 230>>, <<201, 230>>, <<350, 400>>, <<100, 300>>}

Pages == {<<"a.pdf", 1>>, <<"a.pdf", 2>>, <<"b.pdf", 1>>}

\* keywords as a caller gives them: lists; as create_citation_objects gives
\* them: the stored str; or the str and, where the metadata has none, []
KeywordsOf(mode, i, span) ==
    LET words == <<KwOrder[1 + (span[1] % 3)], KwOrder[4 - (span[2] % 3)]>>
    IN CASE mode = "list" -> KwList(words)
         [] mode = "str" -> KwStr(words)
         [] OTHER -> IF i % 2 = 1 THEN KwStr(words) ELSE KwList(<<>>)

\* the i-th citation of the input; its text is marked with i
Citation(i, page, span, mode) ==
    [citation_number |-> i, document_name |-> page[1], page_number |-> page[2],
     chunk_index |-> 0, char_start |-> span[1], char_end |-> span[2],
     text |-> <<i>>, keywords |-> KeywordsOf(mode, i, span),
     score |-> 0, rerank_score |-> 0]

CitationList(ps, mode) == [i \in 1..Len(ps) |-> Citation(i, ps[i][1], ps[i][2], mode)]

\* the caller's dicts, each with its identity
WithRefs(citations) ==
    [i \in 1..Len(citations) |->
        [f \in DOMAIN citations[i] \cup {"ref"} |->
            IF f = "ref" THEN i ELSE citations[i][f]]]

\* a dict without its identity
Deref(citation) == [f \in DOMAIN citation \ {"ref"} |-> citation[f]]

\* the caller's dicts after the call: the ones the call wrote to hold what
\* was written, the others are as they were
Written(citations, touched) ==
    [i \in 1..Len(citations) |->
        IF \E k \in 1..Len(touched) : touched[k].ref = i
        THEN Deref(touched[CHOOSE k \in 1..Len(touched) : touched[k].ref = i])
        ELSE citations[i]]

MergeAction ==
    /\ mg.outcome = "pending" /\ mg.op = "merge_overlapping_citations"
    /\ LET out == MergeOverlappingCitations(WithRefs(mg.citations))
           touched == IF out.outcome = "return" THEN out.result ELSE out.partial
       IN mg' = [mg EXCEPT !.outcome = out.outcome,
                           !.result = [i \in 1..Len(out.result) |-> Deref(out.result[i])],
                           !.after = Written(mg.citations, touched)]
    /\ UNCHANGED <<alpha, bm25_index, documents, metadatas, ids, search, rr, cite, ck>>

\* merge_overlapping_citations applied to the list it returned
MergeAgainAction ==
    /\ mg.op = "merge_overlapping_citations" /\ mg.outcome = "return"
    /\ mg.again = "pending"
    /\ LET out == MergeOverlappingCitations(WithRefs(mg.result))
       IN mg' = [mg EXCEPT !.again = out.outcome,
                           !.second = [i \in 1..Len(out.result) |-> Deref(out.result[i])]]
    /\ UNCHANGED <<alpha, bm25_index, documents, metadatas, ids, search, rr, cite, ck>>

(* --------------------------- validate_citations ------------------------ *)
\* the required fields without the text
RequiredFieldsNoText ==
    <<"citation_number", "document_name", "page_number", "char_start", "char_end">>

\* required_fields
RequiredFields ==
    <<"citation_number", "document_name", "page_number", "char_start", "char_end", "text">>

\* `[f for f in required_fields if f not in citation]`
MissingFields(citation) ==
    LET Absent(f) == f \notin DOMAIN citation
    IN SelectSeq(RequiredFields, Absent)

\* the loop of validate_citations over citations[i..]
RECURSIVE ValidateLoop(_, _, _, _)
ValidateLoop(citations, i, valid, invalid) ==
    IF i > Len(citations) THEN [valid |-> valid, invalid |-> invalid]
    ELSE LET citation == citations[i]
             missing_fields == MissingFields(citation)
         IN IF missing_fields # <<>>
            THEN ValidateLoop(citations, i + 1, valid,
                              Append(invalid,
                                     [citation |-> Get(citation, "citation_number", "?"),
                                      missing_fields |-> missing_fields]))
            ELSE ValidateLoop(citations, i + 1, Append(valid, citation), invalid)

\* CitationTracker.validate_citations
ValidateCitations(citations) ==
    LET out == ValidateLoop(citations, 1, <<>>, <<>>)
    IN Return([total |-> Len(citations), valid |-> Len(out.valid),
               invalid |-> Len(out.invalid), issues |-> out.invalid])

\* the i-th citation of a list to validate, carrying the fields of `present`
PartialCitation(i, present) ==
    LET full == [Citation(i, <<"a.pdf", 1>>, <<100, 150>>, "list") EXCEPT !.text = <<"moteur">>]
    IN [f \in present |-> full[f]]

\* lists of citations, each with any of the required fields, or with every
\* field create_citation_objects writes
PartialCitationLists ==
    LET all == DOMAIN Citation(0, <<"a.pdf", 1>>, <<100, 150>>, "list")
    IN UNION {[1..n -> {PartialCitation(0, present) :
                           present \in SUBSET Range(RequiredFields) \cup {all}}] :
              n \in 0..MaxValidate}

ValidateAction ==
    /\ mg.outcome = "pending" /\ mg.op = "validate_citations"
    /\ LET out == ValidateCitations(mg.citations)
       IN mg' = [mg EXCEPT !.outcome = out.outcome, !.result = out.result,
                           !.after = mg.citations]
    /\ UNCHANGED <<alpha, bm25_index, documents, metadatas, ids, search, rr, cite, ck>>

(* ------------------------------ SmartChunker --------------------------- *)
\* `re.search(r'[.!?]\s', search_window)` looks at most this far past the window
Lookahead == 100

\* \s of the regular expressions, and what str.strip removes
IsSpace(c) == c \in {" ", "\n", "\t"}

\* [.!?]
IsTerminator(c) == c \in {".", "!", "?"}

\* str.strip()
RECURSIVE LStrip(_)
LStrip(s) == IF s # <<>> /\ IsSpace(Head(s)) THEN LStrip(Tail(s)) ELSE s

RECURSIVE RStrip(_)
RStrip(s) ==
    IF s # <<>> /\ IsSpace(s[Len(s)]) THEN RStrip(SubSeq(s, 1, Len(s) - 1)) ELSE s

Strip(s) == RStrip(LStrip(s))

\* re.sub(r'\s+', ' ', text): every run of whitespace becomes one space
CollapseSpaces(text) ==
    LET kept == SelectSeq([i \in 1..Len(text) |-> i],
                          LAMBDA i : ~IsSpace(text[i]) \/ i = 1 \/ ~IsSpace(text[i - 1]))
    IN [j \in 1..Len(kept) |-> IF IsSpace(text[kept[j]]) THEN " " ELSE text[kept[j]]]

\* SmartChunker._normalize_text
NormalizeText(text) == Strip(CollapseSpaces(text))

\* `not text or not text.strip()`
IsBlank(text) == text = <<>> \/ Strip(text) = <<>>

\* text[a:b] of Python, 0-based, b exclusive, indices clipped to the string
Slice(text, a, b) ==
    LET n == Len(text)
        lo == IF a < 0 THEN Max(n + a, 0) ELSE Min(a, n)
        hi == IF b < 0 THEN Max(n + b, 0) ELSE Min(b, n)
    IN SubSeq(text, lo + 1, hi)

\* match.end() of re.search(r'[.!?]\s', search_window), 0 if there is no match
MatchEnd(search_window) ==
    LET hits == {i \in 1..Len(search_window) - 1 :
                    IsTerminator(search_window[i]) /\ IsSpace(search_window[i + 1])}
    IN IF hits = {} THEN 0
       ELSE 1 + (CHOOSE i \in hits : \A j \in hits : i <= j)

\* the end of the window that starts at `start`
WindowEnd(text, start, chunk_size) ==
    LET end == start + chunk_size
    IN IF end < Len(text)
       THEN end + MatchEnd(Slice(text, end, Min(end + Lookahead, Len(text))))
       ELSE end

\* the next window starts one character after the end of this one
NextStartSkipping(text, end, chunk_overlap) ==
    IF end < Len(text) THEN end + 1 ELSE Len(text)

\* `start = end - self.chunk_overlap if end < text_length else text_length`
NextStart(text, end, chunk_overlap) ==
    IF end < Len(text) THEN end - chunk_overlap ELSE Len(text)

\* ' '.join(current_chunk)
RECURSIVE Join(_)
Join(sentences) ==
    IF sentences = <<>> THEN <<>>
    ELSE IF Len(sentences) = 1 THEN sentences[1]
         ELSE sentences[1] \o <<" ">> \o Join(Tail(sentences))

\* sum(len(s) for s in strings)
RECURSIVE SumLen(_)
SumLen(strings) ==
    IF strings = <<>> THEN 0 ELSE Len(Head(strings)) + SumLen(Tail(strings))

\* the trailing sentences of current_chunk kept as overlap: taken from the
\* last one backwards while the kept length stays below chunk_overlap
RECURSIVE OverlapSentences(_, _, _, _)
OverlapSentences(current_chunk, i, overlap_length, chunk_overlap) ==
    IF i = 0 THEN <<>>
    ELSE IF overlap_length + Len(current_chunk[i]) < chunk_overlap
         THEN Append(OverlapSentences(current_chunk, i - 1,
                                      overlap_length + Len(current_chunk[i]),
                                      chunk_overlap),
                     current_chunk[i])
         ELSE <<>>

\* the loop of _chunk_with_sentences over sentences[i..]
RECURSIVE SentenceLoop(_, _, _, _, _, _, _)
SentenceLoop(sentences, i, current_chunk, current_length, chunks, chunk_size, chunk_overlap) ==
    IF i > Len(sentences)
    THEN IF current_chunk # <<>> THEN Append(chunks, Join(current_chunk)) ELSE chunks
    ELSE LET sentence == sentences[i]
         IN IF current_length + Len(sentence) > chunk_size /\ current_chunk # <<>>
            THEN LET next_chunk ==
                        OverlapSentences(current_chunk, Len(current_chunk), 0, chunk_overlap)
                            \o <<sentence>>
                 IN SentenceLoop(sentences, i + 1, next_chunk, SumLen(next_chunk),
                                 Append(chunks, Join(current_chunk)),
                                 chunk_size, chunk_overlap)
            ELSE SentenceLoop(sentences, i + 1, Append(current_chunk, sentence),
                              current_length + Len(sentence), chunks,
                              chunk_size, chunk_overlap)

\* the joined sentences cut every chunk_size characters
ChunkByWidth(sentences, chunk_size, chunk_overlap) ==
    LET text == Join(sentences)
        n == (Len(text) + chunk_size - 1) \div chunk_size
    IN [i \in 1..n |-> SubSeq(text, (i - 1) * chunk_size + 1,
                               Min(i * chunk_size, Len(text)))]

\* SmartChunker._chunk_with_sentences, given the sentences of the text
ChunkWithSentences(sentences, chunk_size, chunk_overlap) ==
    SentenceLoop(sentences, 1, <<>>, 0, <<>>, chunk_size, chunk_overlap)

\* the pieces of text between the cut positions
Pieces(text, cuts) ==
    LET ends == {c \in cuts : TRUE} \cup {Len(text)}
        EndAfter(a) == CHOOSE e \in ends : e > a /\ \A f \in ends : f > a => e <= f
        RECURSIVE From(_)
        From(a) == IF a >= Len(text) THEN <<>>
                   ELSE <<SubSeq(text, a + 1, EndAfter(a))>> \o From(EndAfter(a))
    IN From(0)

\* `[sent.text.strip() for sent in doc.sents]`: the segmenter cuts the text
\* into consecutive spans, each holding at least one visible character; where
\* it cuts is the language model's choice
Segmentations(text) ==
    LET Stripped(ps) == [i \in 1..Len(ps) |-> Strip(ps[i])]
    IN {Stripped(Pieces(text, cuts)) : cuts \in
           {c \in SUBSET (1..Len(text) - 1) :
               \A i \in 1..Len(Pieces(text, c)) : Strip(Pieces(text, c)[i]) # <<>>}}

\* the offset with one joining space counted per earlier chunk
CharStartJoined(chunks, idx) == SumLen(Take(chunks, idx)) + idx

\* `char_start = sum(len(c) for c in chunks[:idx])`
CharStart(chunks, idx) == SumLen(Take(chunks, idx))

\* the metadata loop of chunk_text (keywords, lines 85-86 and 95, are left out:
\* they depend on the chunk's words only)
ChunkDicts(chunks, document_name, page_number) ==
    [i \in 1..Len(chunks) |->
        LET idx == i - 1
            char_start == CharStart(chunks, idx)
        IN [content |-> chunks[i],
            metadata |-> [document_name |-> document_name,
                          page_number |-> page_number,
                          chunk_index |-> idx,
                          char_start |-> char_start,
                          char_end |-> char_start + Len(chunks[i]),
                          chunk_length |-> Len(chunks[i])]]]

NoChunk ==
    [op |-> "none", nlp |-> FALSE, chunk_size |-> 1, chunk_overlap |-> 0,
     document_name |-> "", pages |-> <<>>, page |-> 1, pc |-> "idle",
     text |-> <<>>, start |-> 0, chunks |-> <<>>, all_chunks |-> <<>>,
     sentences |-> <<>>, windows |-> <<>>, outcome |-> "pending", result |-> <<>>]

\* chunk_text is entered for the current page: blank text gives no chunks; with
\* a segmenter the chunks come from _chunk_with_sentences; without one the
\* loop of _chunk_basic starts
ChunkText ==
    /\ ck.pc = "call" /\ ck.page <= Len(ck.pages)
    /\ LET raw == ck.pages[ck.page][1]
           page_number == ck.pages[ck.page][2]
           text == NormalizeText(raw)
       IN IF IsBlank(raw)
          THEN ck' = [ck EXCEPT !.page = @ + 1]
          ELSE IF ck.nlp
               THEN \E sentences \in Segmentations(text) :
                       ck' = [ck EXCEPT
                                !.all_chunks = @ \o ChunkDicts(
                                    ChunkWithSentences(sentences, ck.chunk_size,
                                                       ck.chunk_overlap),
                                    ck.document_name, page_number),
                                !.sentences = sentences,
                                !.page = @ + 1]
               ELSE ck' = [ck EXCEPT !.pc = "loop", !.text = text,
                                     !.start = 0, !.chunks = <<>>,
                                     !.windows = <<>>]
    /\ UNCHANGED <<alpha, bm25_index, documents, metadatas, ids, search, rr, cite, mg>>

\* one iteration of `while start < text_length` in _chunk_basic; `windows`
\* keeps the start and end of each iteration
ChunkBasicStep ==
    /\ ck.pc = "loop" /\ ck.start < Len(ck.text)
    /\ LET end == WindowEnd(ck.text, ck.start, ck.chunk_size)
           chunk == Strip(Slice(ck.text, ck.start, end))
       IN ck' = [ck EXCEPT
                    !.chunks = IF chunk # <<>> THEN Append(@, chunk) ELSE @,
                    !.windows = Append(@, [start |-> ck.start, end |-> end]),
                    !.start = NextStart(ck.text, end, ck.chunk_overlap)]
    /\ UNCHANGED <<alpha, bm25_index, documents, metadatas, ids, search, rr, cite, mg>>

\* _chunk_basic returns and chunk_text attaches the metadata
ChunkBasicReturn ==
    /\ ck.pc = "loop" /\ ck.start >= Len(ck.text)
    /\ ck' = [ck EXCEPT
                !.all_chunks = @ \o ChunkDicts(ck.chunks, ck.document_name,
                                               ck.pages[ck.page][2]),
                !.page = @ + 1, !.pc = "call",
                !.text = <<>>, !.start = 0, !.chunks = <<>>]
    /\ UNCHANGED <<alpha, bm25_index, documents, metadatas, ids, search, rr, cite, mg>>

\* chunk_text, or chunk_by_pages after its last page, returns
ChunkReturn ==
    /\ ck.pc = "call" /\ ck.page > Len(ck.pages)
    /\ ck' = [ck EXCEPT !.pc = "done", !.outcome = "return", !.result = ck.all_chunks]
    /\ UNCHANGED <<alpha, bm25_index, documents, metadatas, ids, search, rr, cite, mg>>

\* characters of the generated texts
Alphabet == {"a", ".", " "}

\* texts of at most n characters
Texts(n) == UNION {[1..m -> Alphabet] : m \in 0..n}

\* (chunk_size, chunk_overlap) with 0 <= chunk_overlap <= chunk_size
ConfigsAnyOverlap == {c \in (1..MaxChunkSize) \X (0..MaxChunkSize) : c[2] <= c[1]}

\* (chunk_size, chunk_overlap) with 0 <= chunk_overlap < chunk_size
Configs == {c \in (1..MaxChunkSize) \X (0..MaxChunkSize) : c[2] < c[1]}

\* the text of the end-to-end scenario
ScenarioText ==
    <<"M", "a", "i", "n", "t", "e", "n", "a", "n", "c", "e", " ", "p", "r", "é", "v", "e",
       "n", "t", "i", "v", "e", " ", "m", "e", "n", "s", "u", "e", "l", "l", "e", ".", " ",
       "I", "n", "s", "p", "e", "c", "t", "i", "o", "n", " ", "d", "e", "s", " ", "é", "q",
       "u", "i", "p", "e", "m", "e", "n", "t", "s", " ", "o", "b", "l", "i", "g", "a", "t",
       "o", "i", "r", "e", " ", "c", "h", "a", "q", "u", "e", " ", "m", "o", "i", "s", "." >>

\* a text whose first sentence end comes k characters after the first three
LookaheadText(k) ==
    [i \in 1..k + 7 |-> IF i = k + 4 THEN "."
                        ELSE IF i = k + 5 THEN " " ELSE "a"]

\* a chunker and the call about to be made on it: chunk_text on one text,
\* chunk_by_pages on the pages of a document, the end-to-end scenario, or a
\* text whose sentence end lies at the far edge of the lookahead
ChunkInit ==
    \/ \E nlp \in BOOLEAN, c \in Configs, text \in Texts(MaxText) :
          ck = [NoChunk EXCEPT !.op = "chunk_text", !.nlp = nlp, !.pc = "call",
                               !.chunk_size = c[1], !.chunk_overlap = c[2],
                               !.document_name = "manuel.pdf",
                               !.pages = <<<<text, 1>>>>]
    \/ \E nlp \in BOOLEAN, c \in Configs, n \in 0..MaxPages :
          \E texts \in [1..n -> Texts(MaxPageLen)] :
              ck = [NoChunk EXCEPT !.op = "chunk_by_pages", !.nlp = nlp, !.pc = "call",
                                   !.chunk_size = c[1], !.chunk_overlap = c[2],
                                   !.document_name = "manuel.pdf",
                                   !.pages = [i \in 1..n |-> <<texts[i], i>>]]
    \/ ck = [NoChunk EXCEPT !.op = "chunk_text", !.nlp = FALSE, !.pc = "call",
                            !.chunk_size = 50, !.chunk_overlap = 10,
                            !.document_name = "manuel.pdf",
                            !.pages = <<<<ScenarioText, 1>>>>]
    \/ \E k \in Lookahead - 2 .. Lookahead - 1, o \in 0..1 :
          ck = [NoChunk EXCEPT !.op = "chunk_text", !.nlp = FALSE, !.pc = "call",
                               !.chunk_size = 3, !.chunk_overlap = o,
                               !.document_name = "manuel.pdf",
                               !.pages = <<<<LookaheadText(k), 1>>>>]


(* ------------------------------ Init ----------------------------------- *)
\* HybridSearcher.__init__
SearchInit ==
    /\ bm25_index = None
    /\ documents = <<>>
    /\ metadatas = <<>>
    /\ ids = <<>>
    /\ search = [called |-> FALSE]

NoRerank ==
    [op |-> "none", candidates |-> <<>>, top_k |-> NoneArg, threshold |-> 0,
     predict_ok |-> TRUE, scores |-> <<>>, outcome |-> "pending", result |-> <<>>,
     again |-> "pending", second |-> <<>>]

\* the reranker about to be called on some candidate list
RerankInit ==
    \E op \in {"rerank", "rerank_with_threshold"}, c \in CandidateLists,
       k \in TopKs, t \in 0..1 :
        rr = [NoRerank EXCEPT !.op = op, !.candidates = c, !.top_k = k,
                              !.threshold = IF op = "rerank" THEN 0 ELSE t]

NoCite ==
    [phase |-> "none", cited_chunks |-> <<>>, response_text |-> <<>>, context |-> <<>>,
     outcome |-> "pending", result |-> <<>>]

\* a reranked list and the answer generated from it
CiteInit ==
    \E c \in ChunkLists, t \in Answers :
        cite = [NoCite EXCEPT !.phase = "reranked", !.cited_chunks = c, !.response_text = t]

NoMerge ==
    [op |-> "none", citations |-> <<>>, outcome |-> "pending", result |-> <<>>,
     after |-> <<>>, again |-> "pending", second |-> <<>>]

MergeInit ==
    \E n \in 0..MaxCit, mode \in {"list", "str", "default"} :
        \E ps \in [1..n -> Pages \X Spans] :
            mg = [NoMerge EXCEPT !.op = "merge_overlapping_citations",
                                 !.citations = CitationList(ps, mode)]

InitSearch ==
    alpha \in 0..AlphaDen /\ SearchInit /\ rr = NoRerank /\ cite = NoCite /\ mg = NoMerge
    /\ ck = NoChunk

NextSearch == HybridSearch \/ Respond

SpecSearch == InitSearch /\ [][NextSearch]_vars

InitRerank == alpha = 1 /\ SearchInit /\ RerankInit /\ cite = NoCite /\ mg = NoMerge
    /\ ck = NoChunk

NextRerank == RerankAction \/ RerankWithThresholdAction \/ RerankAgainAction

SpecRerank == InitRerank /\ [][NextRerank]_vars

InitCite ==
    alpha = 1 /\ SearchInit /\ rr = NoRerank /\ CiteInit /\ mg = NoMerge /\ ck = NoChunk

NextCite == AssembleContext \/ CreateCitationObjectsAction

SpecCite == InitCite /\ [][NextCite]_vars

InitMerge ==
    alpha = 1 /\ SearchInit /\ rr = NoRerank /\ cite = NoCite /\ MergeInit /\ ck = NoChunk

NextMerge == MergeAction \/ MergeAgainAction

SpecMerge == InitMerge /\ [][NextMerge]_vars

\* a list of citations about to be validated
ValidateInit ==
    \E c \in PartialCitationLists :
        mg = [NoMerge EXCEPT !.op = "validate_citations", !.citations = c]

InitValidate ==
    alpha = 1 /\ SearchInit /\ rr = NoRerank /\ cite = NoCite /\ ValidateInit /\ ck = NoChunk

NextValidate == ValidateAction

SpecValidate == InitValidate /\ [][NextValidate]_vars

\* a text about to be parsed
ParseInit ==
    \E t \in ParseTexts : cite = [NoCite EXCEPT !.phase = "parse", !.response_text = t]

InitParse ==
    alpha = 1 /\ SearchInit /\ rr = NoRerank /\ ParseInit /\ mg = NoMerge /\ ck = NoChunk

NextParse == ParseCitationsAction

SpecParse == InitParse /\ [][NextParse]_vars

InitChunk ==
    alpha = 1 /\ SearchInit /\ rr = NoRerank /\ cite = NoCite /\ mg = NoMerge /\ ChunkInit

NextChunk == ChunkText \/ ChunkBasicStep \/ ChunkBasicReturn \/ ChunkReturn

SpecChunk == InitChunk /\ [][NextChunk]_vars

\* a chunker constructed without a segmenter (fallback mode)
InitBasic == InitChunk /\ ~ck.nlp

\* a call in fallback mode runs on: a step that can be taken is taken
SpecBasicFair == InitBasic /\ [][NextChunk]_vars /\ WF_vars(NextChunk)

(* ======================= hybrid search: claims ========================= *)
\* 1-based position of doc_id in a list of ids, 0 if absent
PosIn(idl, doc_id) ==
    IF \E i \in 1..Len(idl) : idl[i] = doc_id
    THEN CHOOSE i \in 1..Len(idl) : idl[i] = doc_id
    ELSE 0

Bm25Ids == [i \in 1..Len(search.bm25_results) |-> search.bm25_results[i].id]

\* C1: an item at vector rank rv and lexical rank rl has fused score
\* alpha/(60+rv+1) + (1-alpha)/(60+rl+1); an item of the vector list alone has
\* alpha/(60+rv+1).  Positions are ranks + 1; both sides are multiplied by
\* AlphaDen * Scale * (60+rv+1) * (60+rl+1).
C1_FusedScore ==
    search.called =>
        \A i \in 1..Len(search.rrf_scores) :
            LET r == search.rrf_scores[i]
                pv == PosIn(search.vector_ids, r.id)
                pl == PosIn(Bm25Ids, r.id)
            IN /\ (pv > 0 /\ pl > 0) =>
                    r.score * (60 + pv) * (60 + pl)
                        = Scale * (alpha * (60 + pl) + (AlphaDen - alpha) * (60 + pv))
               /\ (pv > 0 /\ pl = 0) => r.score * (60 + pv) = Scale * alpha

C1_Witness ==
    /\ search.called
    /\ alpha = 1
    /\ \E i \in 1..Len(search.ranked_results) :
            /\ PosIn(search.vector_ids, search.ranked_results[i].id) = 2
            /\ PosIn(Bm25Ids, search.ranked_results[i].id) = 1
    /\ \E i \in 1..Len(search.ranked_results) :
            /\ PosIn(search.vector_ids, search.ranked_results[i].id) = 1
            /\ PosIn(Bm25Ids, search.ranked_results[i].id) = 0

\* C2: the lexical index searched during a call is built from that call's
\* vector_results (documents, metadatas, ids), never from an earlier call's
\* (stated for the calls that carry candidates, the ones rag_query makes)
C2_IndexOfThisCall ==
    (search.called /\ search.vector_ids # <<>>) =>
        LET vr == VectorResults(search.vector_ids)
        IN /\ ids = search.vector_ids
           /\ documents = vr.documents[1]
           /\ metadatas = vr.metadatas[1]
           /\ bm25_index = BM25Okapi([i \in 1..Len(documents) |-> Tokenize(documents[i])])

C4_RerankFallback ==
    (rr.op = "rerank" /\ rr.outcome # "pending" /\ ~rr.predict_ok /\ rr.candidates # <<>>) =>
        /\ rr.outcome = "return"
        /\ rr.result = rr.candidates

C4_Witness ==
    /\ rr.op = "rerank" /\ rr.outcome = "return" /\ ~rr.predict_ok
    /\ Len(rr.candidates) = 2 /\ rr.top_k = <<1>>
    /\ "rerank_score" \notin DOMAIN rr.candidates[1]

\* C5: when the scorer fails inside rerank_with_threshold, nothing is raised and
\* the stage passes its input ranking through
C5_ThresholdFallback ==
    (/\ rr.op = "rerank_with_threshold" /\ rr.outcome # "pending"
     /\ ~rr.predict_ok /\ rr.candidates # <<>>) =>
        /\ rr.outcome = "return"
        /\ rr.result = rr.candidates

(* ====================== citation tracker: claims ======================= *)
\* the marker indices of the answer
MarkerIndices ==
    LET matches == FindAll(cite.response_text, 1)
    IN {ToInt(matches[i]) : i \in 1..Len(matches)}

\* C6: create_citation_objects never raises and emits no citation for a marker
\* out of range of cited_chunks: n > len(cited_chunks), n = 0, any marker when
\* cited_chunks is empty
C6_OutOfRangeSkipped ==
    cite.phase = "done" =>
        /\ cite.outcome = "return"
        /\ \A i \in 1..Len(cite.result) :
               /\ cite.result[i].citation_number >= 1
               /\ cite.result[i].citation_number <= Len(cite.cited_chunks)

\* C7: every citation has 1 <= citation_number <= len(cited_chunks) and carries
\* the provenance of cited_chunks[citation_number - 1], the candidate labelled
\* [citation_number] in the context
C7_CitationMatchesLabel ==
    (cite.phase = "done" /\ cite.outcome = "return") =>
        \A i \in 1..Len(cite.result) :
            LET c == cite.result[i]
                n == c.citation_number
            IN /\ 1 <= n /\ n <= Len(cite.cited_chunks)
               /\ cite.context[n].label = n
               /\ c.text = cite.context[n].content
               /\ c.text = cite.cited_chunks[n].document
               /\ c.document_name = cite.context[n].doc_name
               /\ c.page_number = cite.context[n].page_num
               /\ c.chunk_index = Get(cite.cited_chunks[n].metadata, "chunk_index", 0)
               /\ c.char_start = Get(cite.cited_chunks[n].metadata, "char_start", 0)
               /\ c.char_end = Get(cite.cited_chunks[n].metadata, "char_end", 0)

\* C8: the citation_numbers of the list returned are exactly the distinct
\* marker indices n of the answer with 1 <= n <= len(cited_chunks), each once,
\* ascending
C8_ExactlyInRangeMarkers ==
    (cite.phase = "done" /\ cite.outcome = "return") =>
        /\ [i \in 1..Len(cite.result) |-> cite.result[i].citation_number]
             = Sorted({n \in MarkerIndices : 1 <= n /\ n <= Len(cite.cited_chunks)})

(* ================ merge_overlapping_citations: claims ================== *)
\* the input citations merged into a returned citation, in scan order (the
\* text of the i-th input citation is <<i>>)
MembersOf(r) == [k \in 1..Len(r.text) |-> mg.citations[r.text[k]]]

MinStart(ms) == CHOOSE x \in {ms[k].char_start : k \in 1..Len(ms)} :
                    \A k \in 1..Len(ms) : x <= ms[k].char_start

MaxEnd(ms) == CHOOSE x \in {ms[k].char_end : k \in 1..Len(ms)} :
                    \A k \in 1..Len(ms) : x >= ms[k].char_end

DocRank(name) == IF name = "a.pdf" THEN 1 ELSE 2

\* (document_name, page_number, char_start) of a is lexicographically <= that of b
LexLeq(a, b) ==
    \/ DocRank(a.document_name) < DocRank(b.document_name)
    \/ /\ a.document_name = b.document_name
       /\ \/ a.page_number < b.page_number
          \/ a.page_number = b.page_number /\ a.char_start <= b.char_start

FirstPos(key) == CHOOSE i \in 1..Len(mg.citations) :
                    /\ KeyOf(mg.citations[i]) = key
                    /\ \A j \in 1..i - 1 : KeyOf(mg.citations[j]) # key

MergeReturned == mg.outcome = "return" /\ mg.citations # <<>>

\* C9: within one (document_name, page_number) group scanned in ascending
\* char_start, the next citation joins the accumulator iff its char_start <=
\* 50 + the largest char_end merged so far; a returned citation spans from the
\* smallest char_start to the largest char_end of its members; citations of
\* different documents or pages are never merged
C9_MergeRule ==
    MergeReturned =>
        LET R == mg.result
        IN /\ \A j \in 1..Len(R) :
                LET ms == MembersOf(R[j])
                IN /\ \A k \in 1..Len(ms) : KeyOf(ms[k]) = KeyOf(R[j])
                   /\ R[j].char_start = MinStart(ms)
                   /\ R[j].char_end = MaxEnd(ms)
                   /\ \A k \in 2..Len(ms) :
                        /\ ms[k - 1].char_start <= ms[k].char_start
                        /\ ms[k].char_start <= MaxEnd(SubSeq(ms, 1, k - 1)) + 50
           /\ \A i, j \in 1..Len(R) :
                (i < j /\ KeyOf(R[i]) = KeyOf(R[j])) =>
                    /\ MembersOf(R[j])[1].char_start > R[i].char_end + 50
                    /\ MembersOf(R[j])[1].char_start
                          >= MembersOf(R[i])[Len(R[i].text)].char_start
           /\ \A m \in 1..Len(mg.citations) :
                Cardinality({<<j, k>> \in (1..Len(R)) \X (1..MaxCit + 1) :
                                k <= Len(R[j].text) /\ R[j].text[k] = m}) = 1

\* 100-150 and 160-200 become 100-200; 200-230 joins too (200 = 150 + 50 at the
\* first merge); 350-400 stays apart
C9_Witness ==
    /\ MergeReturned
    /\ Len(mg.citations) = 3 /\ Len(mg.result) = 2
    /\ \A i \in 1..3 : KeyOf(mg.citations[i]) = <<"a.pdf", 1>>
    /\ mg.citations[1].char_start = 350
    /\ mg.citations[2].char_start = 160
    /\ mg.citations[3].char_end = 150
    /\ mg.result[1].char_start = 100 /\ mg.result[1].char_end = 200
    /\ mg.result[2].char_start = 350 /\ mg.result[2].char_end = 400

\* C10 as claimed: numbering follows (document_name, page_number, char_start)
\* lexicographically, whatever the order of the input
C10_LexicographicNumbering ==
    MergeReturned =>
        \A i, j \in 1..Len(mg.result) :
            mg.result[i].citation_number < mg.result[j].citation_number
                => LexLeq(mg.result[i], mg.result[j])

\* C10 amended: numbering follows the groups in the order of their first
\* appearance in the input and, within a group, ascending char_start
C10_GroupThenOffsetNumbering ==
    MergeReturned =>
        \A i, j \in 1..Len(mg.result) :
            LET a == mg.result[i]
                b == mg.result[j]
            IN a.citation_number < b.citation_number =>
                IF KeyOf(a) = KeyOf(b) THEN a.char_start <= b.char_start
                ELSE FirstPos(KeyOf(a)) < FirstPos(KeyOf(b))

\* b.pdf is numbered before a.pdf, and 100-150 before 350-400 though given after
C10_Witness ==
    /\ MergeReturned
    /\ Len(mg.result) = 3
    /\ mg.result[1].document_name = "b.pdf" /\ mg.result[1].citation_number = 1
    /\ mg.result[2].document_name = "a.pdf" /\ mg.result[2].citation_number = 2
    /\ mg.result[3].document_name = "a.pdf" /\ mg.result[3].citation_number = 3
    /\ mg.result[2].text = <<3>> /\ mg.result[3].text = <<2>>

\* C11: the m citations returned for a non-empty input are numbered 1, 2, ..., m
\* in list order, and 1 <= m <= number of input citations
C11_SequentialNumbers ==
    MergeReturned =>
        /\ Len(mg.result) >= 1
        /\ Len(mg.result) <= Len(mg.citations)
        /\ \A i \in 1..Len(mg.result) : mg.result[i].citation_number = i

\* citations 1 and 2 merge and 3 stays apart: the survivors came numbered 1 and
\* 3 and leave numbered 1 and 2
C11_Witness ==
    /\ MergeReturned
    /\ Len(mg.citations) = 3 /\ Len(mg.result) = 2
    /\ mg.result[1].text = <<1, 2>> /\ mg.result[1].citation_number = 1
    /\ mg.result[2].text = <<3>> /\ mg.result[2].citation_number = 2

(* ==================== hybrid search: order and keys ==================== *)
RankedIds == [i \in 1..Len(search.ranked_results) |-> search.ranked_results[i].id]

\* C16: hybrid_search returns the items in non-increasing fused score; they are
\* the first top_k of all unique ids of the vector and the lexical list:
\* min(top_k, number of unique ids) items, none omitted that scores higher
\* than a returned one
C16_TopKByScore ==
    search.called =>
        LET R == search.ranked_results
            unique == Range(search.vector_ids) \cup Range(Bm25Ids)
        IN /\ Len(R) = Min(search.top_k, Cardinality(unique))
           /\ \A i, j \in 1..Len(R) : i < j => R[i].score >= R[j].score
           /\ \A i \in 1..Len(R) : R[i] \in Range(search.rrf_scores)
           /\ {search.rrf_scores[i].id : i \in 1..Len(search.rrf_scores)} = unique
           /\ \A i \in 1..Len(search.rrf_scores) :
                search.rrf_scores[i].id \notin Range(RankedIds) =>
                    \A j \in 1..Len(R) : search.rrf_scores[i].score <= R[j].score

\* more unique ids than top_k, and the item that came second overtakes the first
C16_Witness ==
    /\ search.called
    /\ search.top_k = 1
    /\ Len(search.rrf_scores) = 2
    /\ Len(search.ranked_results) = 1
    /\ search.ranked_results[1].id = search.rrf_scores[2].id
    /\ search.rrf_scores[2].score > search.rrf_scores[1].score

\* C17: an identifier appears at most once in the list hybrid_search returns,
\* also when it is in the vector list and in the lexical list; the two
\* contributions are added into the one entry keyed by the identifier
C17_OneEntryPerId ==
    search.called =>
        /\ \A i, j \in 1..Len(RankedIds) : i # j => RankedIds[i] # RankedIds[j]
        /\ \A i, j \in 1..Len(search.rrf_scores) :
              i # j => search.rrf_scores[i].id # search.rrf_scores[j].id
        /\ \A doc_id \in Range(search.vector_ids) \cap Range(Bm25Ids) :
              \E i \in 1..Len(search.rrf_scores) :
                 LET r == search.rrf_scores[i]
                 IN /\ r.id = doc_id
                    /\ r.score = alpha * (Scale \div (K + PosIn(search.vector_ids, doc_id)))
                                 + (AlphaDen - alpha)
                                      * (Scale \div (K + PosIn(Bm25Ids, doc_id)))

\* an id at vector rank 0 and lexical rank 0 is returned once
C17_Witness ==
    /\ search.called
    /\ Len(search.vector_ids) = 2 /\ Len(search.bm25_results) = 2
    /\ search.vector_ids[1] = search.bm25_results[1].id
    /\ Len(search.ranked_results) = 2
    /\ search.ranked_results[1].id = search.vector_ids[1]
    /\ search.ranked_results[2].id # search.vector_ids[1]

(* ===================== reranker: scores and order ====================== *)
RerankSucceeded ==
    /\ rr.op = "rerank" /\ rr.outcome = "return" /\ rr.predict_ok
    /\ rr.candidates # <<>>

\* C18: when the scorer succeeds, every candidate rerank returns has
\* rerank_score = the scorer's value for its document, score = rerank_score
\* and original_score = the score it came with (0 if none); the list is in
\* non-increasing rerank_score order and each returned candidate is one of
\* the input candidates, none twice
C18_RescoredAndSorted ==
    RerankSucceeded =>
        LET R == rr.result
        IN /\ \A j \in 1..Len(R) :
                \E i \in 1..Len(rr.candidates) :
                    LET c == rr.candidates[i]
                    IN /\ R[j].id = c.id
                       /\ R[j].document = c.document
                       /\ R[j].metadata = c.metadata
                       /\ R[j].rerank_score = rr.scores[i]
                       /\ R[j].score = R[j].rerank_score
                       /\ R[j].original_score
                             = (IF "score" \in DOMAIN c THEN c.score ELSE 0)
           /\ \A i, j \in 1..Len(R) : i < j => R[i].rerank_score >= R[j].rerank_score
           /\ \A i, j \in 1..Len(R) : i # j => R[i].id # R[j].id

\* two fused candidates come back in the opposite order, each with the fused
\* score it had under original_score
C18_Witness ==
    /\ RerankSucceeded
    /\ Len(rr.candidates) = 2 /\ Len(rr.result) = 2
    /\ "rerank_score" \notin DOMAIN rr.candidates[1]
    /\ "score" \in DOMAIN rr.candidates[1]
    /\ rr.result[1].id = rr.candidates[2].id
    /\ rr.result[1].rerank_score > rr.result[2].rerank_score
    /\ rr.result[1].original_score = rr.candidates[2].score
    /\ rr.result[1].original_score # rr.result[1].score

\* C19: when the scorer succeeds, rerank with an integer top_k >= 0, top_k = 0
\* included, returns exactly min(top_k, len(candidates)) candidates, the ones
\* of highest rerank_score
C19_TruncatesToTopK ==
    (RerankSucceeded /\ rr.top_k # NoneArg) =>
        /\ Len(rr.result) = Min(rr.top_k[1], Len(rr.candidates))
        /\ \A i \in 1..Len(rr.candidates) :
              rr.candidates[i].id \notin {rr.result[j].id : j \in 1..Len(rr.result)} =>
                  \A j \in 1..Len(rr.result) : rr.scores[i] <= rr.result[j].rerank_score

\* C20: with a deterministic scorer that succeeds, reranking the result of
\* rerank(q, C, k) again with the same q and k lists the same candidates (by
\* id) in the same order, also when rerank scores are equal
C20_IdempotentOrder ==
    (RerankSucceeded /\ rr.again = "return") =>
        /\ Len(rr.second) = Len(rr.result)
        /\ \A i \in 1..Len(rr.result) : rr.second[i].id = rr.result[i].id

\* two candidates of equal rerank score keep their order through both calls
C20_Witness ==
    /\ RerankSucceeded /\ rr.again = "return"
    /\ Len(rr.candidates) = 2 /\ Len(rr.result) = 2
    /\ rr.scores[1] = rr.scores[2]
    /\ rr.result[1].id = rr.candidates[1].id
    /\ rr.second[1].id = rr.candidates[1].id
    /\ rr.second[2].id = rr.candidates[2].id

(* ========================== chunker: claims ============================ *)
ChunkReturned == ck.pc = "done" /\ ck.outcome = "return"

\* C12: every chunk emitted by chunk_text or chunk_by_pages, in sentence-aware
\* and in fallback mode, has a content of more than 10 characters
C12_MinContentLength ==
    ChunkReturned =>
        \A i \in 1..Len(ck.result) : Len(ck.result[i].content) > 10

\* C13: the chunks returned by one call, chunk_text or chunk_by_pages, carry
\* the chunk_index values 0, 1, 2, ... without gaps or repeats
C13_ChunkIndexSequence ==
    ChunkReturned =>
        /\ \A i, j \in 1..Len(ck.result) :
              i # j => ck.result[i].metadata.chunk_index
                          # ck.result[j].metadata.chunk_index
        /\ {ck.result[i].metadata.chunk_index : i \in 1..Len(ck.result)}
              = 0..Len(ck.result) - 1

\* sum of the content lengths of the first n chunks of R
RECURSIVE ContentLengths(_, _)
ContentLengths(R, n) ==
    IF n = 0 THEN 0 ELSE ContentLengths(R, n - 1) + Len(R[n].content)

\* C14: in the list returned by one chunk_text call the i-th chunk (0-based)
\* has chunk_index i, char_start = the summed content lengths of the chunks
\* before it, char_end - char_start = len(content) = chunk_length, and so the
\* char_start of a chunk is the char_end of the one before
C14_CumulativeOffsets ==
    (ChunkReturned /\ ck.op = "chunk_text") =>
        \A i \in 1..Len(ck.result) :
            LET c == ck.result[i]
            IN /\ c.metadata.chunk_index = i - 1
               /\ c.metadata.char_start = ContentLengths(ck.result, i - 1)
               /\ c.metadata.char_end - c.metadata.char_start = Len(c.content)
               /\ c.metadata.chunk_length = Len(c.content)
               /\ i > 1 => c.metadata.char_start = ck.result[i - 1].metadata.char_end

\* the 85 characters of the scenario give chunks at offsets 0-50 and 50-95 of
\* the emitted sequence
C14_Witness ==
    /\ ChunkReturned /\ ck.op = "chunk_text"
    /\ ck.pages = <<<<ScenarioText, 1>>>>
    /\ Len(ck.result) = 2
    /\ ck.result[1].metadata.char_start = 0 /\ ck.result[1].metadata.char_end = 50
    /\ ck.result[2].metadata.char_start = 50 /\ ck.result[2].metadata.char_end = 95
    /\ ck.result[2].metadata.chunk_index = 1

\* C15: in fallback mode with chunk_size 50 and chunk_overlap 10 the scenario
\* text gives exactly 2 chunks, the first being the first sentence (the cut is
\* at the sentence boundary), both longer than 10 characters
C15_ScenarioSplit ==
    (/\ ChunkReturned /\ ~ck.nlp
     /\ ck.pages = <<<<ScenarioText, 1>>>>
     /\ ck.chunk_size = 50 /\ ck.chunk_overlap = 10) =>
        /\ Len(ck.result) = 2
        /\ ck.result[1].content = SubSeq(ScenarioText, 1, 33)
        /\ \A i \in 1..Len(ck.result) : Len(ck.result[i].content) > 10

(* ====================== hybrid search: tie-break ======================= *)
\* C24: two returned items of equal fused score that both occur in the vector
\* list come in the order of their vector ranks
C24_TiesKeepVectorOrder ==
    search.called =>
        \A i, j \in 1..Len(search.ranked_results) :
            LET a == search.ranked_results[i]
                b == search.ranked_results[j]
                ra == PosIn(search.vector_ids, a.id)
                rb == PosIn(search.vector_ids, b.id)
            IN (a.score = b.score /\ ra > 0 /\ rb > 0 /\ ra < rb) => i < j

\* the first vector item is second in the lexical list and the second is
\* first there: equal positive scores, and the vector order is kept
C24_Witness ==
    /\ search.called
    /\ Len(search.vector_ids) = 2 /\ Len(search.bm25_results) = 2
    /\ search.bm25_results[1].id = search.vector_ids[2]
    /\ search.bm25_results[2].id = search.vector_ids[1]
    /\ Len(search.ranked_results) = 2
    /\ search.ranked_results[1].score = search.ranked_results[2].score
    /\ search.ranked_results[1].score > 0
    /\ search.ranked_results[1].id = search.vector_ids[1]

IsMarkerAt(text, i, j) ==
    /\ j > i + 1 /\ text[i] = "[" /\ text[j] = "]"
    /\ \A k \in i + 1..j - 1 : IsDigit(text[k])

\* the number written by the digits ds, most significant first
RECURSIVE DecimalValue(_, _)
DecimalValue(ds, acc) ==
    IF ds = <<>> THEN acc ELSE DecimalValue(Tail(ds), 10 * acc + DigitVal(Head(ds)))

\* the integers n for which a marker [n] occurs in text
MarkerNumbers(text) ==
    {DecimalValue(SubSeq(text, p[1] + 1, p[2] - 1), 0) :
        p \in {q \in (1..Len(text)) \X (1..Len(text)) : IsMarkerAt(text, q[1], q[2])}}

\* C21: parse_citations returns exactly the integers n whose marker [n] occurs
\* in the text, each once, in strictly ascending order; a text without markers
\* gives the empty list
C21_ParsedMarkers ==
    cite.phase = "parsed" =>
        /\ Range(cite.result) = MarkerNumbers(cite.response_text)
        /\ \A i, j \in 1..Len(cite.result) : i < j => cite.result[i] < cite.result[j]

\* "Text [2] and [1] and [2]." gives [1, 2]
C21_Witness ==
    /\ cite.phase = "parsed"
    /\ cite.response_text = ExampleText
    /\ cite.result = <<1, 2>>

(* ====================== validate_citations: claims ===================== *)
Validated == mg.op = "validate_citations" /\ mg.outcome = "return"

\* the required fields absent from citation
AbsentRequired(citation) ==
    {"citation_number", "document_name", "page_number", "char_start", "char_end", "text"}
        \ DOMAIN citation

\* positions of the citations that lack a required field
InvalidPositions == {i \in 1..Len(mg.citations) : AbsentRequired(mg.citations[i]) # {}}

\* the k-th of them
NthInvalid(k) ==
    CHOOSE i \in InvalidPositions : Cardinality({j \in InvalidPositions : j < i}) = k - 1

\* C23: validate_citations reports total = number of citations, valid +
\* invalid = total, invalid = the number of citations lacking at least one of
\* the six required fields, and one issues entry per such citation that lists
\* exactly the required fields it lacks
C23_ValidationReport ==
    Validated =>
        LET report == mg.result
        IN /\ report.total = Len(mg.citations)
           /\ report.valid + report.invalid = report.total
           /\ report.invalid = Cardinality(InvalidPositions)
           /\ Len(report.issues) = report.invalid
           /\ \A k \in 1..Len(report.issues) :
                LET missing == report.issues[k].missing_fields
                IN /\ Range(missing) = AbsentRequired(mg.citations[NthInvalid(k)])
                   /\ \A a, b \in 1..Len(missing) : a # b => missing[a] # missing[b]

\* a complete citation and one without char_end and text
C23_Witness ==
    /\ Validated
    /\ Len(mg.citations) = 2
    /\ AbsentRequired(mg.citations[1]) = {}
    /\ AbsentRequired(mg.citations[2]) = {"char_end", "text"}
    /\ mg.result.total = 2 /\ mg.result.valid = 1 /\ mg.result.invalid = 1
    /\ mg.result.issues[1].missing_fields = <<"char_end", "text">>

(* ===================== merge: keywords and purity ====================== *)
\* C25: a merged citation's keywords are the set union of its members'
\* keywords, each once, and the call raises nothing, also when the keywords
\* are the stored delimited strings or the default empty list
C25_KeywordUnion ==
    (mg.op = "merge_overlapping_citations" /\ mg.outcome # "pending") =>
        /\ mg.outcome = "return"
        /\ \A j \in 1..Len(mg.result) :
              Len(mg.result[j].text) > 1 =>
                  LET kw == mg.result[j].keywords
                      ms == MembersOf(mg.result[j])
                  IN /\ kw.kind = "list"
                     /\ kw.chars_of = <<>>
                     /\ Range(kw.items)
                           = UNION {Range(ms[k].keywords.items) : k \in 1..Len(ms)}
                     /\ \A a, b \in 1..Len(kw.items) : a # b => kw.items[a] # kw.items[b]

(* ===================== chunker: sentences and windows ================== *)
SentenceChunked ==
    /\ ChunkReturned /\ ck.op = "chunk_text" /\ ck.nlp
    /\ ~IsBlank(ck.pages[1][1])

\* chunk is the space-joined run of sentences a..b
IsRunOfSentences(content, a, b) == content = Join(SubSeq(ck.sentences, a, b))

\* C26: in sentence-aware mode every emitted chunk is the space-joined
\* sequence of whole consecutive sentences and every sentence is in at least
\* one chunk: no sentence is split, also one longer than chunk_size
C26_WholeSentences ==
    SentenceChunked =>
        LET n == Len(ck.sentences)
        IN /\ \A i \in 1..Len(ck.result) :
                \E a \in 1..n : \E b \in a..n :
                    IsRunOfSentences(ck.result[i].content, a, b)
           /\ \A s \in 1..n :
                \E i \in 1..Len(ck.result) :
                    \E a \in 1..s : \E b \in s..n :
                        IsRunOfSentences(ck.result[i].content, a, b)

\* a first sentence longer than chunk_size is a chunk of its own
C26_Witness ==
    /\ SentenceChunked
    /\ Len(ck.sentences) = 2
    /\ Len(ck.sentences[1]) > ck.chunk_size
    /\ Len(ck.result) = 2
    /\ ck.result[1].content = ck.sentences[1]
    /\ ck.result[2].content = ck.sentences[2]

\* C27: merge_overlapping_citations leaves its input as it was: every
\* citation passed in has the same char_end, text, keywords and
\* citation_number after the call, and the list has the same elements in the
\* same order
C27_InputUntouched ==
    MergeReturned =>
        /\ Len(mg.after) = Len(mg.citations)
        /\ \A i \in 1..Len(mg.citations) :
              /\ mg.after[i].char_end = mg.citations[i].char_end
              /\ mg.after[i].text = mg.citations[i].text
              /\ mg.after[i].keywords = mg.citations[i].keywords
              /\ mg.after[i].citation_number = mg.citations[i].citation_number
              /\ mg.after[i] = mg.citations[i]

\* C30: in the output of merge_overlapping_citations two citations of the
\* same (document_name, page_number) are more than 50 characters apart, and
\* the operation applied to its own output returns the same citations with
\* the same spans, order and citation_numbers
C30_Idempotent ==
    MergeReturned =>
        /\ \A i, j \in 1..Len(mg.result) :
              (i < j /\ KeyOf(mg.result[i]) = KeyOf(mg.result[j])) =>
                  mg.result[j].char_start > mg.result[i].char_end + 50
        /\ mg.again # "pending" =>
              /\ mg.again = "return"
              /\ mg.second = mg.result

\* 100-150 and 160-200 were merged, 350-400 stayed apart, and the second
\* application returns the two citations again
C30_Witness ==
    /\ MergeReturned /\ mg.again = "return"
    /\ Len(mg.citations) = 3 /\ Len(mg.result) = 2
    /\ KeyOf(mg.result[1]) = KeyOf(mg.result[2])
    /\ mg.result[1].char_start = 100 /\ mg.result[1].char_end = 200
    /\ mg.result[2].char_start = 350
    /\ mg.second = mg.result

(* ===================== fallback chunking: claims ======================= *)
\* the chunker without a segmenter returned from chunk_text on a text that is
\* not blank
BasicReturned ==
    /\ ChunkReturned /\ ck.op = "chunk_text" /\ ~ck.nlp
    /\ ~IsBlank(ck.pages[1][1])

\* C28: with 0 <= chunk_overlap < chunk_size every iteration of the loop of
\* _chunk_basic moves the window start forward, never past the end of the
\* text, and the call returns
C28_Terminates ==
    /\ [][ChunkBasicStep => ck.start < ck'.start /\ ck'.start <= Len(ck.text)]_vars
    /\ <>(ck.pc = "done")

\* a fallback call that returned after several iterations of the loop
C28_Witness == BasicReturned /\ Len(ck.windows) >= 3

\* the windows whose stripped slice is not empty
EmittedWindows(text, windows) ==
    SelectSeq(windows, LAMBDA w : Strip(Slice(text, w.start, w.end)) # <<>>)

\* C29: in fallback mode the chunks are the stripped windows of the
\* normalized text in the order of their strictly increasing starts, none is
\* longer than chunk_size + 100, and every character that is not whitespace
\* lies in one of them
C29_NoTextLost ==
    BasicReturned =>
        LET text == NormalizeText(ck.pages[1][1])
            emitted == EmittedWindows(text, ck.windows)
        IN /\ Len(ck.result) = Len(emitted)
           /\ \A i \in 1..Len(emitted) :
                 /\ ck.result[i].content = Strip(Slice(text, emitted[i].start, emitted[i].end))
                 /\ Len(ck.result[i].content) <= ck.chunk_size + 100
           /\ \A i, j \in 1..Len(emitted) :
                 i < j => emitted[i].start < emitted[j].start
           /\ \A p \in 1..Len(text) :
                 ~IsSpace(text[p]) =>
                     \E i \in 1..Len(emitted) :
                         emitted[i].start < p /\ p <= emitted[i].end

\* a fallback call whose window was extended to the last sentence end the
\* lookahead can see
C29_Witness ==
    /\ BasicReturned
    /\ \E i \in 1..Len(ck.windows) :
          ck.windows[i].end = ck.windows[i].start + ck.chunk_size + Lookahead

====
